---- MODULE Spec2Model ----
(***************************************************************************)
(* A model of asana-todo-updater (src/main.py): the field extractors, the  *)
(* urgency score, and the three commands order, urgency and task.          *)
(*                                                                         *)
(* Python values.  A value is a set of entries [p, a]: p is the path of    *)
(* dictionary keys that leads to the atom a.  A value that is no           *)
(* dictionary is the single entry with the empty path; {'a': {'b': 1}} is  *)
(* the entry with path <<"a", "b">> and atom 1; the empty dictionary is an *)
(* entry whose atom has type "dict".  An atom is [t, s, n]: its Python     *)
(* type, its text (for a str) and its number (for an int, a bool, a date,  *)
(* or the digits YYYYMMDD of a str shaped like an ISO date).               *)
(*                                                                         *)
(* Scores are kept in tenths (an urgency of 1.5 is the integer 15): every  *)
(* multiplier and increment of compute_urgency is a multiple of 0.1.       *)
(***************************************************************************)
EXTENDS Integers, Sequences, FiniteSets, TLC

VARIABLES today, command, section_gid, remote, got, fetched, pc, idx,
          didSort, order, writes, args, ret

vars == <<today, command, section_gid, remote, got, fetched, pc, idx,
          didSort, order, writes, args, ret>>

----------------------------------------------------------------------------
(* Python values *)

AtomNone == [t |-> "NoneType", s |-> "", n |-> 0]
AtomStr(s) == [t |-> "str", s |-> s, n |-> 0]
AtomIso(ymd) == [t |-> "str", s |-> "YYYY-MM-DD", n |-> ymd]
AtomInt(n) == [t |-> "int", s |-> "", n |-> n]
AtomBool(b) == [t |-> "bool", s |-> "", n |-> IF b THEN 1 ELSE 0]
AtomDate(ord) == [t |-> "date", s |-> "", n |-> ord]
AtomList == [t |-> "list", s |-> "", n |-> 0]
AtomEmptyDict == [t |-> "dict", s |-> "", n |-> 0]

Val(a) == {[p |-> <<>>, a |-> a]}
None == Val(AtomNone)
PyStr(s) == Val(AtomStr(s))
PyIso(ymd) == Val(AtomIso(ymd))
PyInt(n) == Val(AtomInt(n))
PyBool(b) == Val(AtomBool(b))
PyDate(ord) == Val(AtomDate(ord))
EmptyDict == Val(AtomEmptyDict)

\* The dictionary {key: v}.
Dict(key, v) == {[p |-> <<key>> \o e.p, a |-> e.a] : e \in v}
\* The dictionary with the items of d1 and d2 (their keys are disjoint).
Merge(d1, d2) ==
    IF d1 = EmptyDict THEN d2 ELSE IF d2 = EmptyDict THEN d1 ELSE d1 \cup d2

IsDict(x) == \A e \in x : e.p # <<>> \/ e.a.t = "dict"
TheAtom(x) == (CHOOSE e \in x : TRUE).a
TypeOf(x) == IF IsDict(x) THEN "dict" ELSE TheAtom(x).t

\* The outcome of a call: a returned value, or a raised exception.
Return(v) == [exc |-> "", val |-> v]
Raise(e) == [exc |-> e, val |-> None]

\* x[key] with a str key: only a dictionary can be subscripted by a str.
GetItem(x, key) ==
    IF ~IsDict(x) THEN Raise("TypeError")
    ELSE LET sub == {[p |-> Tail(e.p), a |-> e.a] :
                        e \in {f \in x : f.p # <<>> /\ Head(f.p) = key}}
         IN  IF sub = {} THEN Raise("KeyError") ELSE Return(sub)

\* x[keys[1]][keys[2]]...: the first exception ends the expression.
RECURSIVE GetPath(_, _)
GetPath(x, keys) ==
    IF keys = <<>> THEN Return(x)
    ELSE LET r == GetItem(x, Head(keys))
         IN  IF r.exc # "" THEN r ELSE GetPath(r.val, Tail(keys))

\* bool(x)
Truthy(x) ==
    IF IsDict(x) THEN x # EmptyDict
    ELSE LET a == TheAtom(x)
         IN  CASE a.t = "NoneType" -> FALSE
               [] a.t \in {"bool", "int"} -> a.n # 0
               [] a.t = "str" -> a.s # ""
               [] OTHER -> TRUE

----------------------------------------------------------------------------
(* Calendar dates.  A date is its number of days since Monday 2024-01-01. *)

IsLeap(y) == (y % 4 = 0 /\ y % 100 # 0) \/ y % 400 = 0
DaysInMonth(y, m) ==
    IF m = 2 THEN (IF IsLeap(y) THEN 29 ELSE 28)
    ELSE IF m \in {4, 6, 9, 11} THEN 30 ELSE 31

RECURSIVE DaysBeforeMonth(_, _)
DaysBeforeMonth(y, m) ==
    IF m = 1 THEN 0 ELSE DaysBeforeMonth(y, m - 1) + DaysInMonth(y, m - 1)

RECURSIVE DaysBeforeYear(_)
DaysBeforeYear(y) ==
    IF y = 2024 THEN 0
    ELSE IF y > 2024
    THEN DaysBeforeYear(y - 1) + (IF IsLeap(y - 1) THEN 366 ELSE 365)
    ELSE DaysBeforeYear(y + 1) - (IF IsLeap(y) THEN 366 ELSE 365)

ToOrdinal(y, m, d) == DaysBeforeYear(y) + DaysBeforeMonth(y, m) + d - 1

\* datetime.date.fromisoformat(x)
fromisoformat(x) ==
    IF TypeOf(x) # "str" THEN Raise("TypeError")
    ELSE LET a == TheAtom(x)
             y == a.n \div 10000
             m == (a.n \div 100) % 100
             d == a.n % 100
         IN  IF /\ a.s = "YYYY-MM-DD"
                /\ y >= 1
                /\ m \in 1..12
                /\ d \in 1..DaysInMonth(y, m)
             THEN Return(PyDate(ToOrdinal(y, m, d)))
             ELSE Raise("ValueError")

----------------------------------------------------------------------------
(* The field extractors *)

parse_date(datestr) ==
    IF datestr = None THEN Return(None)
    ELSE LET r == fromisoformat(datestr)
         IN  IF r.exc = "ValueError" THEN Return(None) ELSE r

parse_enum_custom_field(fields, field_gid) ==
    LET r == GetPath(fields, <<field_gid, "enum_value", "name">>)
    IN  IF r.exc \in {"TypeError", "KeyError"} THEN Return(None) ELSE r

parse_date_custom_field(fields, field_gid) ==
    LET r == GetPath(fields, <<field_gid, "date_value", "date">>)
    IN  IF r.exc \in {"TypeError", "KeyError"} THEN Return(None)
        ELSE IF r.exc # "" THEN r
        ELSE parse_date(r.val)

parse_bool_field(fields, field_name) ==
    LET r == GetItem(fields, field_name)
    IN  IF r.exc = "KeyError" THEN Return(PyBool(FALSE))
        ELSE IF r.exc # "" THEN r
        ELSE Return(PyBool(Truthy(r.val)))

parse_number_field(fields, field_gid) ==
    LET r == GetPath(fields, <<field_gid, "number_value">>)
    IN  IF r.exc = "KeyError" THEN Return(None) ELSE r

parse_date_field(fields, field_name) ==
    LET r == GetItem(fields, field_name)
    IN  IF r.exc = "KeyError" THEN Return(None)
        ELSE IF r.exc # "" THEN r
        ELSE parse_date(r.val)

----------------------------------------------------------------------------
(* The urgency score *)

IsBusday(ord) == ord % 7 < 5

\* numpy.busday_count(begin, end): the weekdays in [begin, end), and for
\* end < begin minus the weekdays in (end, begin].
busday_count(begin, end) ==
    IF begin <= end
    THEN Cardinality({d \in begin..(end - 1) : IsBusday(d)})
    ELSE 0 - Cardinality({d \in (end + 1)..begin : IsBusday(d)})

\* The match statement: the base score (in tenths) of the impact label.
impact_score(impact) ==
    CASE impact = PyStr("Very High") -> 200
      [] impact = PyStr("High") -> 100
      [] impact = PyStr("Medium") -> 20
      [] impact = PyStr("Low") -> 10
      [] OTHER -> 0

\* due_multiplier with the band of 20 days tested before the band >= 10.
due_multiplier_band20_first(urgency, remaining_days) ==
    IF remaining_days < 0 THEN urgency * 5
    ELSE IF remaining_days = 0 THEN urgency * 3
    ELSE IF remaining_days = 1 THEN urgency * 2
    ELSE IF remaining_days = 2 THEN (urgency * 15) \div 10
    ELSE IF remaining_days = 3 THEN (urgency * 12) \div 10
    ELSE IF remaining_days = 4 THEN (urgency * 11) \div 10
    ELSE IF remaining_days = 20 THEN (urgency * 5) \div 10
    ELSE IF remaining_days >= 10 THEN (urgency * 8) \div 10
    ELSE urgency

\* The if/elif chain on remaining_days.
due_multiplier(urgency, remaining_days) ==
    IF remaining_days < 0 THEN urgency * 5
    ELSE IF remaining_days = 0 THEN urgency * 3
    ELSE IF remaining_days = 1 THEN urgency * 2
    ELSE IF remaining_days = 2 THEN (urgency * 15) \div 10
    ELSE IF remaining_days = 3 THEN (urgency * 12) \div 10
    ELSE IF remaining_days = 4 THEN (urgency * 11) \div 10
    ELSE IF remaining_days >= 10 THEN (urgency * 8) \div 10
    ELSE IF remaining_days = 20 THEN (urgency * 5) \div 10
    ELSE urgency

\* open_weeks_of with a division that truncates toward zero.
open_weeks_truncated(open_days) ==
    IF open_days >= 0 THEN open_days \div 5
    ELSE 0 - ((0 - open_days) \div 5)

\* open_days // 5: Python's floor division.
open_weeks_of(open_days) ==
    IF open_days >= 0 THEN open_days \div 5
    ELSE 0 - ((0 - open_days + 4) \div 5)

\* The bonus (in tenths) of the open weeks.
open_bonus(open_weeks) ==
    IF open_weeks > 0 /\ open_weeks < 10 THEN open_weeks * 5
    ELSE open_weeks * 1

compute_urgency(due_on, open_date, impact) ==
    IF impact = None THEN 0
    ELSE LET base == impact_score(impact)
             afterDue ==
                 IF due_on # None
                 THEN due_multiplier(base,
                                     busday_count(today, TheAtom(due_on).n))
                 ELSE base
         IN  IF open_date # None
             THEN afterDue + open_bonus(open_weeks_of(
                                 busday_count(TheAtom(open_date).n, today)))
             ELSE afterDue

----------------------------------------------------------------------------
(* compute_urgency on its own: every today of one week, due dates and open *)
(* dates around it, and every kind of impact.                              *)

DueBack == 3
DueAhead == 30
OpenBack == 72
OpenAhead == 60

FirstToday == 23 * 7

Impacts == {None, PyStr("Very High"), PyStr("High"), PyStr("Medium"),
            PyStr("Low"), PyStr("Critical")}

Idle ==
    /\ section_gid = None
    /\ remote = <<>>
    /\ got = <<>>
    /\ fetched = ""
    /\ idx = 0
    /\ didSort = <<>>
    /\ order = 0
    /\ writes = <<>>

InitCompute ==
    /\ Idle
    /\ command = "compute_urgency"
    /\ pc = "call"
    /\ ret = 0
    /\ today \in FirstToday..(FirstToday + 6)
    /\ args \in [due_on : {None} \cup
                          {PyDate(d) : d \in (FirstToday - DueBack)..
                                             (FirstToday + 6 + DueAhead)},
                 open_date : {None} \cup
                             {PyDate(d) : d \in (FirstToday - OpenBack)..
                                                (FirstToday + 6 + OpenAhead)},
                 impact : Impacts]

call_compute_urgency ==
    /\ command = "compute_urgency"
    /\ pc = "call"
    /\ ret' = compute_urgency(args.due_on, args.open_date, args.impact)
    /\ pc' = "done"
    /\ UNCHANGED <<today, command, section_gid, remote, got, fetched, idx,
                   didSort, order, writes, args>>

NextCompute == call_compute_urgency

SpecCompute == InitCompute /\ [][NextCompute]_vars

----------------------------------------------------------------------------
(* Claims about compute_urgency (under SpecCompute) *)

Computed == command = "compute_urgency" /\ pc = "done"

Recognized == {PyStr("Very High"), PyStr("High"), PyStr("Medium"),
               PyStr("Low")}

\* The base weight of a recognized impact label.
BaseWeight(impact) ==
    CASE impact = PyStr("Very High") -> 20
      [] impact = PyStr("High") -> 10
      [] impact = PyStr("Medium") -> 2
      [] impact = PyStr("Low") -> 1

\* Ten times the multiplier of the band of the distance d.
BandTimesTen(d) ==
    CASE d < 0 -> 50
      [] d = 0 -> 30
      [] d = 1 -> 20
      [] d = 2 -> 15
      [] d = 3 -> 12
      [] d = 4 -> 11
      [] d >= 10 -> 8
      [] OTHER -> 10

\* The signed business-day distance from today to the due date, and the
\* business days from the open date to today.
DueDistance == busday_count(today, TheAtom(args.due_on).n)
OpenDays == busday_count(TheAtom(args.open_date).n, today)

\* The score (in tenths) the claims give after the due-date step.
ScoreAfterDue ==
    IF args.due_on = None THEN BaseWeight(args.impact) * 10
    ELSE BaseWeight(args.impact) * BandTimesTen(DueDistance)

\* floor(n / 5): the integer w with 5w <= n < 5w + 5.
FloorWeeks(n) == CHOOSE w \in (0 - 40)..40 : 5 * w <= n /\ n < 5 * w + 5

\* C1: for every impact that is none of the four labels (null or an
\* unrecognized label) and every due and open date, compute_urgency
\* returns exactly 0.
C1_UnrecognizedImpactScoresZero ==
    (Computed /\ args.impact \notin Recognized) => ret = 0

\* C8: the urgency score is never negative, for every impact, due date and
\* open date (an open date in the future included).
C8_ScoreNeverNegative == Computed => ret >= 0

\* C9: for a recognized impact with base weight b, a null open date and a
\* due date at business-day distance d, compute_urgency returns b times the
\* multiplier of the first matching band (5, 3, 2, 1.5, 1.2, 1.1 for d < 0,
\* 0, 1, 2, 3, 4; 0.8 for every d >= 10, d = 20 included; 1 for d in 5..9),
\* and b with a null due date.
C9_DueBands ==
    (Computed /\ args.impact \in Recognized /\ args.open_date = None)
        => ret = ScoreAfterDue

\* C9's case: a recognized impact, no open date, a due date 20 business days
\* ahead.
C9_Witness ==
    /\ Computed
    /\ args.impact \in Recognized
    /\ args.open_date = None
    /\ args.due_on # None
    /\ DueDistance = 20

\* C10: for a recognized impact and an open date n business days before
\* today, compute_urgency adds to the score after the due-date step the
\* bonus of w = floor(n / 5): w * 0.5 when 1 <= w <= 9, w * 0.1 otherwise;
\* the bonus is not scaled by the due-date multiplier.
C10_OpenBonus ==
    (Computed /\ args.impact \in Recognized /\ args.open_date # None)
        => LET w == FloorWeeks(OpenDays)
           IN  ret = ScoreAfterDue + (IF 1 <= w /\ w <= 9 THEN w * 5 ELSE w)

\* C10's case: an open date in the future whose business-day count is no
\* multiple of 5, with a due date whose band scales the base.
C10_Witness ==
    /\ Computed
    /\ args.impact \in Recognized
    /\ args.open_date # None
    /\ OpenDays < 0
    /\ OpenDays % 5 # 0
    /\ args.due_on # None
    /\ DueDistance < 0

----------------------------------------------------------------------------
(* The extractors on their own: every shape of record along the path of    *)
(* keys an extractor follows (no mapping, key absent, key present), with   *)
(* every kind of payload at its end.                                       *)

Payloads == {None, PyStr(""), PyStr("Holder"), PyIso(20240612),
             PyIso(20240230), PyInt(5), PyBool(TRUE), PyBool(FALSE),
             Val(AtomList)}

NoMapping == {None, PyInt(5), PyStr("Holder"), Val(AtomList)}

RECURSIVE Records(_)
Records(keys) ==
    IF keys = <<>> THEN Payloads
    ELSE NoMapping \cup {EmptyDict}
           \cup {Dict(Head(keys), v) : v \in Records(Tail(keys))}

\* The keys each extractor follows from its first argument.
PathOf(name, key) ==
    CASE name = "parse_enum_custom_field" -> <<key, "enum_value", "name">>
      [] name = "parse_date_custom_field" -> <<key, "date_value", "date">>
      [] name = "parse_number_field" -> <<key, "number_value">>
      [] name \in {"parse_bool_field", "parse_date_field"} -> <<key>>

Extractors == {"parse_enum_custom_field", "parse_date_custom_field",
               "parse_number_field", "parse_bool_field", "parse_date_field"}

KeyOf(name) ==
    CASE name = "parse_bool_field" -> "completed"
      [] name = "parse_date_field" -> "due_on"
      [] OTHER -> "1205994998304482"

InitExtract ==
    /\ Idle
    /\ today = FirstToday
    /\ pc = "call"
    /\ ret = Return(None)
    /\ command \in Extractors
    /\ \E fields \in Records(PathOf(command, KeyOf(command))) :
          args = [fields |-> fields, key |-> KeyOf(command)]

Extract(name, result) ==
    /\ command = name
    /\ pc = "call"
    /\ ret' = result
    /\ pc' = "done"
    /\ UNCHANGED <<today, command, section_gid, remote, got, fetched, idx,
                   didSort, order, writes, args>>

call_parse_enum_custom_field ==
    Extract("parse_enum_custom_field",
            parse_enum_custom_field(args.fields, args.key))

call_parse_date_custom_field ==
    Extract("parse_date_custom_field",
            parse_date_custom_field(args.fields, args.key))

call_parse_number_field ==
    Extract("parse_number_field", parse_number_field(args.fields, args.key))

call_parse_bool_field ==
    Extract("parse_bool_field", parse_bool_field(args.fields, args.key))

call_parse_date_field ==
    Extract("parse_date_field", parse_date_field(args.fields, args.key))

NextExtract ==
    \/ call_parse_enum_custom_field
    \/ call_parse_date_custom_field
    \/ call_parse_number_field
    \/ call_parse_bool_field
    \/ call_parse_date_field

SpecExtract == InitExtract /\ [][NextExtract]_vars

----------------------------------------------------------------------------
(* Claims about the extractors (under SpecExtract) *)

Extracted == command \in Extractors /\ pc = "done"

\* C7: each of the five extractors is total: for every record and field
\* key (field absent, payload null or of the wrong type, date string
\* invalid) it returns and never raises.
C7_ExtractorsNeverRaise == Extracted => ret.exc = ""

----------------------------------------------------------------------------
(* The commands.  A task of the service is [gid, rec, custom_fields]: its  *)
(* identifier (its position in the batch), the dictionary of its built-in  *)
(* fields and the list of its custom field records.  A write is logged as  *)
(* [gid, field, value, outcome] when update_task is called.                *)

open_date_field_gid == "1205994998304482"
impact_field_gid == "1205872827118668"
size_field_gid == "1205994859505931"
urgency_field_gid == "1205994998304510"
order_field_gid == "1206071193914820"

\* What a call of the service does: it returns, raises asana.error.AsanaError
\* or raises another exception.
Outcomes == {"ok", "AsanaError", "Exception"}

\* fields = {}; for field in task['custom_fields']: fields[field['gid']] = field
RECURSIVE build_fields(_, _)
build_fields(fields, custom_fields) ==
    IF custom_fields = <<>> THEN Return(fields)
    ELSE LET field == Head(custom_fields)
             g == GetItem(field, "gid")
         IN  IF g.exc # "" THEN g
             ELSE LET key == TheAtom(g.val).s
                      others == {e \in fields : e.p # <<>> /\ Head(e.p) # key}
                  IN  build_fields(others \cup Dict(key, field),
                                   Tail(custom_fields))

\* on_fetch_error with only the AsanaError clause.
on_fetch_error_asana_only(outcome) ==
    IF outcome = "AsanaError" THEN "done" ELSE "raised"

\* The except clauses around the fetch: both kinds of error return.
on_fetch_error(outcome) == "done"

\* order_after_write with except clauses that print and go on.
order_after_write_continue(outcome) == "loop"

\* The except clauses around the order write: both kinds of error return.
order_after_write(outcome) == IF outcome = "ok" THEN "loop" ELSE "done"

\* assign_after_write with except clauses that return.
assign_after_write_return(outcome) ==
    IF outcome = "ok" THEN "loop" ELSE "done"

\* The except clauses around the urgency write: both print and the loop
\* goes on.
assign_after_write(outcome) == "loop"

\* The position after an iteration of a for loop over len items.
LoopPc(after, next, len, loop) ==
    IF after # "loop" THEN after ELSE IF next >= len THEN "done" ELSE loop

----------------------------------------------------------------------------
(* order *)

\* key_less with None before every number.
key_less_none_first(a, b) ==
    IF (a.order = None) # (b.order = None) THEN a.order = None
    ELSE IF a.order = b.order THEN FALSE
    ELSE TheAtom(a.order).n < TheAtom(b.order).n

\* (a['order'] is None, a['order']) < (b['order'] is None, b['order']), on
\* order keys that are numbers or None.
key_less(a, b) ==
    IF (a.order = None) # (b.order = None) THEN a.order # None
    ELSE IF a.order = b.order THEN FALSE
    ELSE TheAtom(a.order).n < TheAtom(b.order).n

\* The stable insertion of x, which came after the items of s.
RECURSIVE insert_sorted(_, _)
insert_sorted(x, s) ==
    IF s = <<>> THEN <<x>>
    ELSE IF key_less(x, s[Len(s)]) 
         THEN Append(insert_sorted(x, SubSeq(s, 1, Len(s) - 1)), s[Len(s)])
         ELSE Append(s, x)

\* sorted(toSort, key=...): a stable sort.
RECURSIVE sorted(_)
sorted(toSort) ==
    IF toSort = <<>> THEN <<>>
    ELSE insert_sorted(toSort[Len(toSort)],
                       sorted(SubSeq(toSort, 1, Len(toSort) - 1)))

\* The loop that builds toSort; an exception of an item ends it.
RECURSIVE build_toSort(_)
build_toSort(tasks) ==
    IF tasks = <<>> THEN [exc |-> "", val |-> <<>>]
    ELSE LET task == Head(tasks)
             f == build_fields(EmptyDict, task.custom_fields)
             o == IF f.exc # "" THEN f
                  ELSE parse_number_field(f.val, order_field_gid)
             rest == build_toSort(Tail(tasks))
         IN  IF o.exc # "" THEN [exc |-> o.exc, val |-> <<>>]
             ELSE IF rest.exc # "" THEN rest
             ELSE [exc |-> "",
                   val |-> <<[gid |-> task.gid, order |-> o.val]>> \o rest.val]

order_no_section ==
    /\ command = "order"
    /\ pc = "start"
    /\ section_gid = None
    /\ pc' = "done"
    /\ UNCHANGED <<today, command, section_gid, remote, got, fetched, idx,
                   didSort, order, writes, args, ret>>

order_fetch ==
    /\ command = "order"
    /\ pc = "start"
    /\ section_gid # None
    /\ \E outcome \in Outcomes :
          /\ fetched' = outcome
          /\ IF outcome = "ok"
             THEN got' = remote /\ pc' = "sort"
             ELSE got' = got /\ pc' = on_fetch_error(outcome)
    /\ UNCHANGED <<today, command, section_gid, remote, idx, didSort, order,
                   writes, args, ret>>

order_sort ==
    /\ command = "order"
    /\ pc = "sort"
    /\ LET t == build_toSort(got)
       IN  IF t.exc # ""
           THEN didSort' = didSort /\ pc' = "raised"
           ELSE /\ didSort' = sorted(t.val)
                /\ pc' = LoopPc("loop", 0, Len(t.val), "write")
    /\ order' = 0
    /\ idx' = 0
    /\ UNCHANGED <<today, command, section_gid, remote, got, fetched, writes,
                   args, ret>>

order_write ==
    /\ command = "order"
    /\ pc = "write"
    /\ LET task == didSort[idx + 1]
       IN  /\ order' = order + 10
           /\ idx' = idx + 1
           /\ IF task.order # None
              THEN \E outcome \in Outcomes :
                      /\ writes' = Append(writes,
                                          [gid |-> task.gid,
                                           field |-> order_field_gid,
                                           value |-> order + 10,
                                           outcome |-> outcome])
                      /\ pc' = LoopPc(order_after_write(outcome), idx + 1,
                                      Len(didSort), "write")
              ELSE /\ writes' = writes
                   /\ pc' = LoopPc("loop", idx + 1, Len(didSort), "write")
    /\ UNCHANGED <<today, command, section_gid, remote, got, fetched, didSort,
                   args, ret>>

----------------------------------------------------------------------------
(* urgency, task and _assign_urgency *)

\* skip_task without the rule on the size.
skip_task_completed_only(completed, size) == Truthy(completed)

\* The two skip rules of _assign_urgency.
skip_task(completed, size) == Truthy(completed) \/ size = PyStr("Holder")

urgency_fetch ==
    /\ command = "urgency"
    /\ pc = "start"
    /\ \E outcome \in Outcomes :
          /\ fetched' = outcome
          /\ IF outcome = "ok"
             THEN /\ got' = remote
                  /\ pc' = LoopPc("loop", 0, Len(remote), "assign")
             ELSE got' = got /\ pc' = on_fetch_error(outcome)
    /\ UNCHANGED <<today, command, section_gid, remote, idx, didSort, order,
                   writes, args, ret>>

\* One get_task of the list comprehension of task; args holds task_gids.
task_fetch ==
    /\ command = "task"
    /\ pc = "start"
    /\ \E outcome \in Outcomes :
          IF outcome = "ok"
          THEN /\ got' = Append(got, remote[args[Len(got) + 1]])
               /\ IF Len(got) + 1 = Len(args)
                  THEN fetched' = "ok" /\ pc' = "assign"
                  ELSE fetched' = fetched /\ pc' = pc
          ELSE /\ got' = got
               /\ fetched' = outcome
               /\ pc' = on_fetch_error(outcome)
    /\ UNCHANGED <<today, command, section_gid, remote, idx, didSort, order,
                   writes, args, ret>>

\* One iteration of the loop of _assign_urgency.
assign_urgency ==
    /\ command \in {"urgency", "task"}
    /\ pc = "assign"
    /\ LET task == got[idx + 1]
           fields == build_fields(EmptyDict, task.custom_fields)
           completed == parse_bool_field(task.rec, "completed")
           due_on == parse_date_field(task.rec, "due_on")
           open_date == parse_date_custom_field(fields.val,
                                                open_date_field_gid)
           impact == parse_enum_custom_field(fields.val, impact_field_gid)
           size == parse_enum_custom_field(fields.val, size_field_gid)
       IN  IF \/ fields.exc # ""
              \/ completed.exc # ""
              \/ due_on.exc # ""
              \/ open_date.exc # ""
              \/ impact.exc # ""
              \/ size.exc # ""
           THEN /\ pc' = "raised"
                /\ UNCHANGED <<idx, writes>>
           ELSE /\ idx' = idx + 1
                /\ IF skip_task(completed.val, size.val)
                   THEN /\ writes' = writes
                        /\ pc' = LoopPc("loop", idx + 1, Len(got), "assign")
                   ELSE \E outcome \in Outcomes :
                           /\ writes' =
                                 Append(writes,
                                        [gid |-> task.gid,
                                         field |-> urgency_field_gid,
                                         value |-> compute_urgency(
                                                     due_on.val,
                                                     open_date.val,
                                                     impact.val),
                                         outcome |-> outcome])
                           /\ pc' = LoopPc(assign_after_write(outcome),
                                           idx + 1, Len(got), "assign")
    /\ UNCHANGED <<today, command, section_gid, remote, got, fetched, didSort,
                   order, args, ret>>

----------------------------------------------------------------------------
(* The batches of tasks the service holds *)

MaxTasks == 2
MaxOrderTasks == 3
MaxKey == 2

EnumField(gid, name) ==
    Merge(Dict("gid", PyStr(gid)), Dict("enum_value", Dict("name", name)))
NullEnumField(gid) ==
    Merge(Dict("gid", PyStr(gid)), Dict("enum_value", None))
DateField(gid, date) ==
    Merge(Dict("gid", PyStr(gid)), Dict("date_value", Dict("date", date)))
NullDateField(gid) ==
    Merge(Dict("gid", PyStr(gid)), Dict("date_value", None))
NumberField(gid, number) ==
    Merge(Dict("gid", PyStr(gid)), Dict("number_value", number))

\* The custom fields concerning size: none, "Holder", or another label.
SizeFields == {<<>>,
               <<EnumField(size_field_gid, PyStr("Holder"))>>,
               <<EnumField(size_field_gid, PyStr("Small"))>>}

\* Impact, due date and open date: "Low" with neither date; "Low", overdue
\* since Friday 2024-06-07 and open from Monday 2024-07-01 (after today);
\* no impact selected, an invalid due date and an open date field without a
\* date.
Profiles ==
    {[due_on |-> None,
      fields |-> <<EnumField(impact_field_gid, PyStr("Low"))>>],
     [due_on |-> PyIso(20240607),
      fields |-> <<EnumField(impact_field_gid, PyStr("Low")),
                   DateField(open_date_field_gid, PyIso(20240701))>>],
     [due_on |-> PyIso(20240230),
      fields |-> <<NullEnumField(impact_field_gid),
                   NullDateField(open_date_field_gid)>>]}

UrgencyTasks ==
    {[rec |-> Merge(Dict("completed", PyBool(c)), Dict("due_on", d.due_on)),
      custom_fields |-> sz \o d.fields] :
        c \in BOOLEAN, sz \in SizeFields, d \in Profiles}

\* A task of a section: no order field, an order field without a number,
\* or an order key.
OrderTasks ==
    {[rec |-> Dict("completed", PyBool(FALSE)), custom_fields |-> cf] :
        cf \in {<<>>, <<NumberField(order_field_gid, None)>>}
                 \cup {<<NumberField(order_field_gid, PyInt(k))>> :
                         k \in 1..MaxKey}}

\* The batches of at most n tasks of pool, each task with its position as gid.
Batches(pool, n) ==
    UNION {{[i \in 1..len |->
                [gid |-> i, rec |-> b[i].rec,
                 custom_fields |-> b[i].custom_fields]] :
              b \in [1..len -> pool]} : len \in 0..n}

InitRun ==
    /\ today = FirstToday
    /\ pc = "start"
    /\ got = <<>>
    /\ fetched = ""
    /\ idx = 0
    /\ didSort = <<>>
    /\ order = 0
    /\ writes = <<>>
    /\ ret = 0
    /\ command \in {"order", "urgency", "task"}
    /\ IF command = "order"
       THEN /\ section_gid \in {None, PyStr("1206005792093857")}
            /\ remote \in Batches(OrderTasks, MaxOrderTasks)
            /\ args = <<>>
       ELSE /\ section_gid = None
            /\ remote \in Batches(UrgencyTasks, MaxTasks)
            /\ IF command = "task"
               THEN remote # <<>> /\ args = [i \in 1..Len(remote) |-> i]
               ELSE args = <<>>

NextRun ==
    \/ order_no_section
    \/ order_fetch
    \/ order_sort
    \/ order_write
    \/ urgency_fetch
    \/ task_fetch
    \/ assign_urgency

SpecRun == InitRun /\ [][NextRun]_vars

----------------------------------------------------------------------------
(* Claims about the commands (under SpecRun) *)

Assigning == command \in {"urgency", "task"}
Finished == pc \in {"done", "raised"}
Failed(w) == w.outcome # "ok"

\* The extracted values of a task of the service.
FieldsOf(task) == build_fields(EmptyDict, task.custom_fields).val
CompletedOf(task) == parse_bool_field(task.rec, "completed").val
SizeOf(task) == parse_enum_custom_field(FieldsOf(task), size_field_gid).val
OrderKeyOf(task) == parse_number_field(FieldsOf(task), order_field_gid).val
UrgencyOf(task) ==
    compute_urgency(
        parse_date_field(task.rec, "due_on").val,
        parse_date_custom_field(FieldsOf(task), open_date_field_gid).val,
        parse_enum_custom_field(FieldsOf(task), impact_field_gid).val)

\* Neither completed nor sized "Holder".
Eligible(task) ==
    CompletedOf(task) # PyBool(TRUE) /\ SizeOf(task) # PyStr("Holder")

\* The writes of the log without their outcomes.
Attempts == [k \in 1..Len(writes) |->
                [gid |-> writes[k].gid, field |-> writes[k].field,
                 value |-> writes[k].value]]

\* One write per eligible task, in the order of the batch.
RECURSIVE UrgencyWrites(_)
UrgencyWrites(tasks) ==
    IF tasks = <<>> THEN <<>>
    ELSE (IF Eligible(Head(tasks))
          THEN <<[gid |-> Head(tasks).gid, field |-> urgency_field_gid,
                  value |-> UrgencyOf(Head(tasks))]>>
          ELSE <<>>) \o UrgencyWrites(Tail(tasks))

\* C2: in _assign_urgency, whatever writes fail (service error or another
\* exception), a failed write never stops the loop: every later task of the
\* batch that is neither completed nor sized "Holder" still has its write
\* attempted.
C2_FailedWriteDoesNotStopLoop ==
    (Assigning /\ Finished /\ fetched = "ok") =>
        \A k \in 1..Len(writes) :
            Failed(writes[k]) =>
                \A j \in (writes[k].gid + 1)..Len(remote) :
                    Eligible(remote[j]) =>
                        \E l \in (k + 1)..Len(writes) : writes[l].gid = j

\* C2's case: the write of the first task failed with an exception that is
\* no service error, and the write of a later task was attempted.
C2_Witness ==
    /\ Assigning
    /\ pc = "done"
    /\ Len(writes) = 2
    /\ writes[1].outcome = "Exception"
    /\ writes[1].gid < writes[2].gid

\* C3: in order, once an order write fails (service error or another
\* exception) no order write is attempted for a later task of the sorted
\* sequence, and the writes done before are not undone: a failed write is
\* the last of the run, the run has ended, and no task is written twice.
C3_FailedOrderWriteStopsRun ==
    command = "order" =>
        /\ \A k \in 1..Len(writes) :
              Failed(writes[k]) => (k = Len(writes) /\ pc = "done")
        /\ \A k, l \in 1..Len(writes) :
              writes[k].gid = writes[l].gid => k = l

\* C3's case: a write succeeded, the next one failed, and a task with an
\* order key was still to come.
C3_Witness ==
    /\ command = "order"
    /\ Len(writes) = 2
    /\ ~Failed(writes[1])
    /\ Failed(writes[2])
    /\ \E k \in (idx + 1)..Len(didSort) : didSort[k].order # None

\* The positions of the tasks of the batch that have an order key.
Keyed == {i \in 1..Len(remote) : OrderKeyOf(remote[i]) # None}
KeyAt(i) == TheAtom(OrderKeyOf(remote[i])).n

\* C4: in order, when no write fails, the tasks that had an order key are
\* written 10, 20, ..., 10 * k in ascending order of their key (equal keys
\* in input order), no write is issued for a task without a key, and the
\* tasks without a key are sorted after all the others in input order.
C4_OrderAssignment ==
    (/\ command = "order"
     /\ pc = "done"
     /\ fetched = "ok"
     /\ \A k \in 1..Len(writes) : ~Failed(writes[k]))
        => /\ Len(writes) = Cardinality(Keyed)
           /\ {writes[k].gid : k \in 1..Len(writes)} = Keyed
           /\ \A k \in 1..Len(writes) :
                 /\ writes[k].value = 10 * k
                 /\ writes[k].field = order_field_gid
           /\ \A k, l \in 1..Len(writes) :
                 k < l =>
                    \/ KeyAt(writes[k].gid) < KeyAt(writes[l].gid)
                    \/ /\ KeyAt(writes[k].gid) = KeyAt(writes[l].gid)
                       /\ writes[k].gid < writes[l].gid
           /\ \A k, l \in 1..Len(didSort) :
                 (k < l /\ didSort[k].order = None) =>
                    /\ didSort[l].order = None
                    /\ didSort[k].gid < didSort[l].gid

\* C4's case: a task without a key comes first in the batch, two later
\* tasks have keys in descending order, and all writes succeeded.
C4_Witness ==
    /\ command = "order"
    /\ pc = "done"
    /\ Len(writes) = 2
    /\ \A k \in 1..Len(writes) : ~Failed(writes[k])
    /\ Len(remote) = 3
    /\ 1 \notin Keyed
    /\ KeyAt(2) > KeyAt(3)

\* C5: in _assign_urgency a task has a write attempted if and only if it is
\* not completed and its size is not "Holder"; each such task has exactly
\* one attempt, with the value compute_urgency gives for that task, and the
\* attempts come in the order of the batch.
C5_OneWritePerEligibleTask ==
    (Assigning /\ fetched = "ok") =>
        /\ Attempts = UrgencyWrites(SubSeq(remote, 1, idx))
        /\ Finished => idx = Len(remote)

\* C5's case: at the end of the run, a task that is not completed but sized
\* "Holder" was passed over and the task after it was written.
C5_Witness ==
    /\ Assigning
    /\ pc = "done"
    /\ fetched = "ok"
    /\ Len(remote) = 2
    /\ CompletedOf(remote[1]) # PyBool(TRUE)
    /\ SizeOf(remote[1]) = PyStr("Holder")
    /\ Len(writes) = 1
    /\ writes[1].gid = 2

\* C6: in order, urgency and task, when the fetch of the tasks fails with a
\* service error or another exception the command returns normally and no
\* write is attempted.
C6_FetchFailureReturns ==
    fetched \in {"AsanaError", "Exception"}
        => (pc = "done" /\ writes = <<>>)

\* C6's case: task has fetched one task, the fetch of the next one raised an
\* exception that is no service error, and the first task was eligible.
C6_Witness ==
    /\ command = "task"
    /\ fetched = "Exception"
    /\ pc = "done"
    /\ Len(got) = 1
    /\ Eligible(got[1])

====
